---------------------------- MODULE Spec2Model ----------------------------
(***************************************************************************)
(* A model of the OPC UA NodeId of async-opcua-types (node_id/mod.rs):     *)
(* the process-wide numeric allocator, the binary codec, the textual codec *)
(* and the conversions to the well-known enumerations; and of the          *)
(* configuration files of async-opcua-core (config.rs): save, load and the *)
(* expansion of environment variables.                                     *)
(*                                                                         *)
(* Numbers.  TLC's integers are 32-bit signed, so a u32 is kept as its two *)
(* 16-bit halves [hi, lo]; u8 and u16 are plain integers.  A text is the   *)
(* sequence of its Unicode code points; Str turns a tuple of one-character *)
(* strings into one.  A byte stream is a sequence of integers 0..255.      *)
(***************************************************************************)
EXTENDS Integers, Sequences, FiniteSets, TLC

VARIABLES
    NEXT_NODE_ID_NUMERIC,  \* the static AtomicU32
    pc,                    \* per thread: where it is inside next_numeric
    arg,                   \* per thread: the namespace argument of its call
    fetched,               \* per thread: the value fetch_add returned to it
    returned,              \* per thread: the NodeIds its calls returned, in order
    v,                     \* the NodeId a pure operation is applied to
    ctx,                   \* the decoding context (its length limits)
    stream,                \* the byte stream written by encode / read by decode
    pos,                   \* the read position of the stream after decode
    encoded,               \* TRUE once stream holds encode(v)
    sizeRes,               \* the result of byte_len
    decRes,                \* the result of decode
    text,                  \* the string handed to from_str
    parsed,                \* the result of from_str(text)
    formatted,             \* the result of to_string
    reparsed,              \* the result of from_str(formatted)
    convRes,               \* the results of is_null and the as_*_id conversions
    env_expansion,         \* whether the build has the feature "env_expansion"
    env,                   \* the environment variables of the process
    file,                  \* the file at the path given to save / load
    config,                \* the object save is called on
    rules,                 \* which objects validate() of the implementor refuses
    target,                \* the type load is asked to produce
    cfgPc,                 \* where the call of save is
    yaml,                  \* save: the serialized object
    expanded,              \* load: the document after expand_env_in_value
    cfgRes                 \* the result of save / load

allocVars == <<NEXT_NODE_ID_NUMERIC, pc, arg, fetched, returned>>
binVars == <<ctx, stream, pos, encoded, sizeRes, decRes>>
textVars == <<text, parsed, formatted, reparsed>>
cfgVars == <<env_expansion, env, file, config, rules, target, cfgPc, yaml, expanded, cfgRes>>
vars == <<allocVars, binVars, textVars, v, convRes, cfgVars>>

(***************************************************************************)
(* Bounds of the model.                                                    *)
(***************************************************************************)
MaxCalls == 4

\* The threads that call next_numeric.
Threads == {"t1", "t2", "t3"}

(***************************************************************************)
(* u32 arithmetic on 16-bit halves.                                        *)
(***************************************************************************)
U32(n) == [hi |-> n \div 65536, lo |-> n % 65536]

U32Max == [hi |-> 65535, lo |-> 65535]

u32_le(a, n) == a.hi < n \div 65536 \/ (a.hi = n \div 65536 /\ a.lo <= n % 65536)

wrapping_add(a, n) ==
    LET lo == a.lo + n
    IN  [hi |-> (a.hi + lo \div 65536) % 65536, lo |-> lo % 65536]

None == [tag |-> "None"]


(***************************************************************************)
(* Identifier and NodeId values.                                           *)
(***************************************************************************)
\* UAString { value: Option<String> }: a null text differs from an empty one.
UAString_null == [null |-> TRUE, chars |-> <<>>]

UAString_from(chars) == [null |-> FALSE, chars |-> chars]

\* ByteString { value: Option<Vec<u8>> }.
ByteString_null == [null |-> TRUE, bytes |-> <<>>]

ByteString_from(bytes) == [null |-> FALSE, bytes |-> bytes]

\* The Identifier enum.  Every value carries all four payload fields, the
\* ones of the other variants at a fixed filler, so that equality of the
\* records is the derived equality of the enum: same variant, same payload.
NoIdentifier ==
    [kind |-> "", numeric |-> [hi |-> 0, lo |-> 0], string |-> UAString_null,
     guid |-> <<>>, byte_string |-> ByteString_null]

Numeric(value) == [NoIdentifier EXCEPT !.kind = "Numeric", !.numeric = value]

String(value) == [NoIdentifier EXCEPT !.kind = "String", !.string = value]

\* A Guid is its 16 bytes.
Guid(value) == [NoIdentifier EXCEPT !.kind = "Guid", !.guid = value]

ByteString(value) ==
    [NoIdentifier EXCEPT !.kind = "ByteString", !.byte_string = value]

NodeId_new(namespace, identifier) ==
    [namespace |-> namespace, identifier |-> identifier]

(***************************************************************************)
(* The allocator: NodeId::next_numeric run by several threads.             *)
(***************************************************************************)
AllocNamespaces == {0, 2}

\* No conversion has run.
NoConv == [op |-> "", result |-> None]

\* The counter as the doc comment of next_numeric has it ("incrementing up
\* from 1000"), not as the static is initialised.
IdleAlloc_from_1000 ==
    /\ NEXT_NODE_ID_NUMERIC = U32(1000)
    /\ pc = [t \in Threads |-> "idle"]
    /\ arg = [t \in Threads |-> 0]
    /\ fetched = [t \in Threads |-> U32(0)]
    /\ returned = [t \in Threads |-> <<>>]

IdleAlloc ==
    /\ NEXT_NODE_ID_NUMERIC = U32(1)
    /\ pc = [t \in Threads |-> "idle"]
    /\ arg = [t \in Threads |-> 0]
    /\ fetched = [t \in Threads |-> U32(0)]
    /\ returned = [t \in Threads |-> <<>>]

\* No save or load in progress.
IdleConfig ==
    /\ env_expansion = FALSE
    /\ env = None
    /\ file = None
    /\ config = None
    /\ rules = None
    /\ target = None
    /\ cfgPc = "idle"
    /\ yaml = None
    /\ expanded = None
    /\ cfgRes = None

IdlePure ==
    /\ IdleConfig
    /\ v = None
    /\ ctx = None
    /\ stream = <<>>
    /\ pos = 0
    /\ encoded = FALSE
    /\ sizeRes = None
    /\ decRes = None
    /\ text = <<>>
    /\ parsed = None
    /\ formatted = None
    /\ reparsed = None
    /\ convRes = NoConv

Init == IdleAlloc /\ IdlePure

\* The calls begun so far, by all threads together.
Started ==
    LET n[S \in SUBSET Threads] ==
            IF S = {} THEN 0
            ELSE LET t == CHOOSE x \in S : TRUE
                 IN  Len(returned[t]) + (IF pc[t] = "idle" THEN 0 ELSE 1)
                       + n[S \ {t}]
    IN  n[Threads]

\* A thread enters next_numeric(namespace).
Call(t, namespace) ==
    /\ pc[t] = "idle"
    /\ Started < MaxCalls
    /\ pc' = [pc EXCEPT ![t] = "fetch_add"]
    /\ arg' = [arg EXCEPT ![t] = namespace]
    /\ UNCHANGED <<NEXT_NODE_ID_NUMERIC, fetched, returned>>

\* fetch_add with the store lost: the counter is left as it was.
fetch_add_stale(cur) == cur

\* AtomicU32::fetch_add(1, SeqCst): the value the counter holds afterwards.
fetch_add(cur) == wrapping_add(cur, 1)

\* The atomic read-modify-write: one indivisible step.
FetchAdd(t) ==
    /\ pc[t] = "fetch_add"
    /\ fetched' = [fetched EXCEPT ![t] = NEXT_NODE_ID_NUMERIC]
    /\ NEXT_NODE_ID_NUMERIC' = fetch_add(NEXT_NODE_ID_NUMERIC)
    /\ pc' = [pc EXCEPT ![t] = "new"]
    /\ UNCHANGED <<arg, returned>>

\* NodeId::new(namespace, fetched) is returned to the caller.
next_numeric(t) ==
    /\ pc[t] = "new"
    /\ returned' = [returned EXCEPT
                      ![t] = Append(@, NodeId_new(arg[t], Numeric(fetched[t])))]
    /\ pc' = [pc EXCEPT ![t] = "idle"]
    /\ arg' = [arg EXCEPT ![t] = 0]
    /\ fetched' = [fetched EXCEPT ![t] = U32(0)]
    /\ UNCHANGED NEXT_NODE_ID_NUMERIC

Next ==
    \/ \E t \in Threads, namespace \in AllocNamespaces :
          Call(t, namespace) /\ UNCHANGED <<binVars, textVars, v, convRes, cfgVars>>
    \/ \E t \in Threads : FetchAdd(t) /\ UNCHANGED <<binVars, textVars, v, convRes, cfgVars>>
    \/ \E t \in Threads : next_numeric(t) /\ UNCHANGED <<binVars, textVars, v, convRes, cfgVars>>

Spec == Init /\ [][Next]_vars

Done == {c \in Threads \X (1..MaxCalls) : c[2] <= Len(returned[c[1]])}

\* C1: the node ids returned by all calls of all threads, under every
\* interleaving and whatever namespaces were passed, carry pairwise distinct
\* numeric values: as many distinct values as calls that returned.
C1_DistinctValues ==
    \A c \in Done : \A d \in Done :
        c # d => returned[c[1]][c[2]].identifier.numeric
                   # returned[d[1]][d[2]].identifier.numeric

\* Two threads have both returned from a call, in different namespaces, and
\* one of them from a second call.
C1_Witness ==
    \E t \in Threads : \E u \in Threads :
        /\ t # u
        /\ Len(returned[t]) >= 2
        /\ Len(returned[u]) >= 1
        /\ returned[t][1].namespace # returned[u][1].namespace

(***************************************************************************)
(* The binary codec.  A sink is a growing byte vector (writes do not fail); *)
(* a source is a byte sequence and a read position.                        *)
(***************************************************************************)
MaxPayload == 2

RECURSIVE SeqsUpTo(_, _)
\* The sequences over S of length at most n.
SeqsUpTo(S, n) ==
    IF n = 0 THEN {<<>>}
    ELSE LET shorter == SeqsUpTo(S, n - 1)
         IN  shorter \cup {Append(q, x) : q \in shorter, x \in S}

write_u8(x) == <<x>>

write_u16(x) == <<x % 256, x \div 256>>

write_u32(x) == write_u16(x.lo) \o write_u16(x.hi)

\* An Int32 length, little-endian; -1 is ff ff ff ff.
write_i32(n) ==
    IF n < 0
    THEN LET m == n + 2147483647 + 1  \* n + 2^31, the low 31 bits
         IN  <<m % 256, (m \div 256) % 256, (m \div 65536) % 256,
               128 + m \div 16777216>>
    ELSE <<n % 256, (n \div 256) % 256, (n \div 65536) % 256, n \div 16777216>>

\* The UTF-8 bytes of one code point.
utf8_char(c) ==
    IF c < 128 THEN <<c>>
    ELSE IF c < 2048 THEN <<192 + c \div 64, 128 + (c % 64)>>
    ELSE IF c < 65536
         THEN <<224 + c \div 4096, 128 + ((c \div 64) % 64), 128 + (c % 64)>>
    ELSE <<240 + c \div 262144, 128 + ((c \div 4096) % 64),
           128 + ((c \div 64) % 64), 128 + (c % 64)>>

RECURSIVE utf8(_)
\* The UTF-8 bytes of a text.
utf8(chars) ==
    IF chars = <<>> THEN <<>> ELSE utf8_char(Head(chars)) \o utf8(Tail(chars))

IsCont(b) == b \in 128..191

RECURSIVE from_utf8(_)
\* String::from_utf8: the text of a byte sequence, or a failure.
from_utf8(b) ==
    IF b = <<>> THEN [ok |-> TRUE, chars |-> <<>>]
    ELSE
      LET n == Len(b)
          one ==
            IF b[1] < 128 THEN [len |-> 1, c |-> b[1]]
            ELSE IF b[1] \in 194..223 /\ n >= 2 /\ IsCont(b[2])
              THEN [len |-> 2, c |-> (b[1] - 192) * 64 + (b[2] - 128)]
            ELSE IF b[1] \in 224..239 /\ n >= 3 /\ IsCont(b[2]) /\ IsCont(b[3])
              THEN [len |-> 3,
                    c |-> (b[1] - 224) * 4096 + (b[2] - 128) * 64 + (b[3] - 128)]
            ELSE IF b[1] \in 240..244 /\ n >= 4 /\ IsCont(b[2]) /\ IsCont(b[3])
                      /\ IsCont(b[4])
              THEN [len |-> 4,
                    c |-> (b[1] - 240) * 262144 + (b[2] - 128) * 4096
                            + (b[3] - 128) * 64 + (b[4] - 128)]
            ELSE [len |-> 0, c |-> 0]
          valid ==
            /\ one.len > 0
            /\ one.len = 3 => one.c >= 2048 /\ one.c \notin 55296..57343
            /\ one.len = 4 => one.c \in 65536..1114111
          rest == from_utf8(SubSeq(b, one.len + 1, n))
      IN  IF valid /\ rest.ok
          THEN [ok |-> TRUE, chars |-> <<one.c>> \o rest.chars]
          ELSE [ok |-> FALSE, chars |-> <<>>]

UAString_byte_len(value) == 4 + (IF value.null THEN 0 ELSE Len(utf8(value.chars)))

UAString_encode(value) ==
    IF value.null THEN write_i32(-1)
    ELSE write_i32(Len(utf8(value.chars))) \o utf8(value.chars)

Guid_byte_len(value) == 16

Guid_encode(value) == value

ByteString_byte_len(value) == 4 + (IF value.null THEN 0 ELSE Len(value.bytes))

ByteString_encode(value) ==
    IF value.null THEN write_i32(-1)
    ELSE write_i32(Len(value.bytes)) \o value.bytes

\* byte_len's numeric arm without the namespace test of the two-byte form.
byte_len_numeric_no_namespace_test(namespace, value) ==
    IF u32_le(value, 255) THEN 2
    ELSE IF namespace <= 255 /\ u32_le(value, 65535) THEN 4
    ELSE 7

\* byte_len, the Identifier::Numeric arm.
byte_len_numeric(namespace, value) ==
    IF namespace = 0 /\ u32_le(value, 255) THEN 2
    ELSE IF namespace <= 255 /\ u32_le(value, 65535) THEN 4
    ELSE 7

\* BinaryEncodable::byte_len for NodeId.
byte_len(node) ==
    LET id == node.identifier
    IN  CASE id.kind = "Numeric" -> byte_len_numeric(node.namespace, id.numeric)
          [] id.kind = "String" -> 3 + UAString_byte_len(id.string)
          [] id.kind = "Guid" -> 3 + Guid_byte_len(id.guid)
          [] id.kind = "ByteString" -> 3 + ByteString_byte_len(id.byte_string)

\* encode's numeric arm taking the two-byte form in every namespace <= 255.
encode_numeric_two_byte_in_any_small_namespace(namespace, value) ==
    IF namespace <= 255 /\ u32_le(value, 255)
    THEN write_u8(0) \o write_u8(value.lo % 256)
    ELSE IF namespace <= 255 /\ u32_le(value, 65535)
    THEN write_u8(1) \o write_u8(namespace % 256) \o write_u16(value.lo)
    ELSE write_u8(2) \o write_u16(namespace) \o write_u32(value)

\* encode, the Identifier::Numeric arm.  "*value as u8", "self.namespace as
\* u8" and "*value as u16" truncate.
encode_numeric(namespace, value) ==
    IF namespace = 0 /\ u32_le(value, 255)
    THEN write_u8(0) \o write_u8(value.lo % 256)
    ELSE IF namespace <= 255 /\ u32_le(value, 65535)
    THEN write_u8(1) \o write_u8(namespace % 256) \o write_u16(value.lo)
    ELSE write_u8(2) \o write_u16(namespace) \o write_u32(value)

\* BinaryEncodable::encode for NodeId: the bytes it writes to the stream.
encode(node) ==
    LET id == node.identifier
    IN  CASE id.kind = "Numeric" -> encode_numeric(node.namespace, id.numeric)
          [] id.kind = "String" ->
               write_u8(3) \o write_u16(node.namespace) \o UAString_encode(id.string)
          [] id.kind = "Guid" ->
               write_u8(4) \o write_u16(node.namespace) \o Guid_encode(id.guid)
          [] id.kind = "ByteString" ->
               write_u8(5) \o write_u16(node.namespace)
                 \o ByteString_encode(id.byte_string)

(***************************************************************************)
(* Reading.  A read that meets the end of the source fails; how far the    *)
(* source has then advanced is left open by std::io::Read, so the failure  *)
(* is marked eof and the decoding step picks the position.                 *)
(***************************************************************************)
Avail(s, p, n) == n <= Len(s) - p

read_u8(s, p) == s[p + 1]

read_u16(s, p) == s[p + 1] + 256 * s[p + 2]

read_u32(s, p) == [hi |-> read_u16(s, p + 2), lo |-> read_u16(s, p)]

read_i32(s, p) ==
    LET top == IF s[p + 4] >= 128 THEN s[p + 4] - 256 ELSE s[p + 4]
    IN  top * 16777216 + s[p + 3] * 65536 + s[p + 2] * 256 + s[p + 1]

\* Error::decoding(message), with the value the message formats.
DecodingError(message, value) ==
    [status |-> "BadDecodingError", message |-> message, value |-> value]

Ok(value, p) ==
    [ok |-> TRUE, value |-> value, error |-> None, pos |-> p, eof |-> FALSE]

Fail(error, p) ==
    [ok |-> FALSE, value |-> None, error |-> error, pos |-> p, eof |-> FALSE]

Eof(p) ==
    [ok |-> FALSE, value |-> None,
     error |-> DecodingError("unexpected end of stream", 0),
     pos |-> p, eof |-> TRUE]

\* UAString::decode: an Int32 length (-1 for null), then that many UTF-8 bytes;
\* a length above the context's limit is rejected before anything is read.
UAString_decode(s, p, c) ==
    IF ~Avail(s, p, 4) THEN Eof(p)
    ELSE
      LET len == read_i32(s, p)
      IN  IF len = -1 THEN Ok(UAString_null, p + 4)
          ELSE IF len < -1
            THEN Fail(DecodingError("string length is negative", len), p + 4)
          ELSE IF len > c.max_string_length
            THEN Fail(DecodingError("string length exceeds decoding limit", len),
                      p + 4)
          ELSE IF ~Avail(s, p + 4, len) THEN Eof(p + 4)
          ELSE
            LET u == from_utf8(SubSeq(s, p + 5, p + 4 + len))
            IN  IF u.ok THEN Ok(UAString_from(u.chars), p + 4 + len)
                ELSE Fail(DecodingError("string is not valid UTF-8", 0),
                          p + 4 + len)

Guid_decode(s, p, c) ==
    IF ~Avail(s, p, 16) THEN Eof(p) ELSE Ok(SubSeq(s, p + 1, p + 16), p + 16)

ByteString_decode(s, p, c) ==
    IF ~Avail(s, p, 4) THEN Eof(p)
    ELSE
      LET len == read_i32(s, p)
      IN  IF len = -1 THEN Ok(ByteString_null, p + 4)
          ELSE IF len < -1
            THEN Fail(DecodingError("byte string length is negative", len), p + 4)
          ELSE IF len > c.max_byte_string_length
            THEN Fail(DecodingError("byte string length exceeds decoding limit",
                                    len), p + 4)
          ELSE IF ~Avail(s, p + 4, len) THEN Eof(p + 4)
          ELSE Ok(ByteString_from(SubSeq(s, p + 5, p + 4 + len)), p + 4 + len)

\* decode, the arm of tag 0x0: the two-byte form.
decode_two_byte(s, p) ==
    IF ~Avail(s, p, 1) THEN Eof(p)
    ELSE Ok(NodeId_new(0, Numeric(U32(read_u8(s, p)))), p + 1)

\* The four-byte arm with the namespace byte read and then dropped.
decode_four_byte_drops_namespace(s, p) ==
    IF ~Avail(s, p, 1) THEN Eof(p)
    ELSE IF ~Avail(s, p + 1, 2) THEN Eof(p + 1)
    ELSE Ok(NodeId_new(0, Numeric(U32(read_u16(s, p + 1)))), p + 3)

\* decode, the arm of tag 0x1: the four-byte form.
decode_four_byte(s, p) ==
    IF ~Avail(s, p, 1) THEN Eof(p)
    ELSE IF ~Avail(s, p + 1, 2) THEN Eof(p + 1)
    ELSE Ok(NodeId_new(read_u8(s, p), Numeric(U32(read_u16(s, p + 1)))), p + 3)

\* decode, the arm of tag 0x2: the full numeric form.
decode_numeric(s, p) ==
    IF ~Avail(s, p, 2) THEN Eof(p)
    ELSE IF ~Avail(s, p + 2, 4) THEN Eof(p + 2)
    ELSE Ok(NodeId_new(read_u16(s, p), Numeric(read_u32(s, p + 2))), p + 6)

\* decode, the arm of tag 0x3: namespace, then the text.
decode_string(s, p, c) ==
    IF ~Avail(s, p, 2) THEN Eof(p)
    ELSE LET value == UAString_decode(s, p + 2, c)
         IN  IF value.ok
             THEN Ok(NodeId_new(read_u16(s, p), String(value.value)), value.pos)
             ELSE value

\* decode, the arm of tag 0x4: namespace, then the guid.
decode_guid(s, p, c) ==
    IF ~Avail(s, p, 2) THEN Eof(p)
    ELSE LET value == Guid_decode(s, p + 2, c)
         IN  IF value.ok
             THEN Ok(NodeId_new(read_u16(s, p), Guid(value.value)), value.pos)
             ELSE value

\* decode, the arm of tag 0x5: namespace, then the byte string.
decode_byte_string(s, p, c) ==
    IF ~Avail(s, p, 2) THEN Eof(p)
    ELSE LET value == ByteString_decode(s, p + 2, c)
         IN  IF value.ok
             THEN Ok(NodeId_new(read_u16(s, p), ByteString(value.value)),
                     value.pos)
             ELSE value

\* The catch-all arm with an error that does not carry the tag.
unrecognized_without_the_byte(identifier, p) ==
    Fail(DecodingError("Unrecognized node id type", 0), p)

\* decode, the arm of every other tag; p is the position after the tag.
unrecognized(identifier, p) ==
    Fail(DecodingError("Unrecognized node id type {identifier}", identifier), p)

\* BinaryDecodable::decode for NodeId, reading s from position p.
decode(s, p, c) ==
    IF ~Avail(s, p, 1) THEN Eof(p)
    ELSE
      LET identifier == read_u8(s, p)
      IN  CASE identifier = 0 -> decode_two_byte(s, p + 1)
            [] identifier = 1 -> decode_four_byte(s, p + 1)
            [] identifier = 2 -> decode_numeric(s, p + 1)
            [] identifier = 3 -> decode_string(s, p + 1, c)
            [] identifier = 4 -> decode_guid(s, p + 1, c)
            [] identifier = 5 -> decode_byte_string(s, p + 1, c)
            [] OTHER -> unrecognized(identifier, p + 1)

(***************************************************************************)
(* The inputs of the pure operations.                                      *)
(***************************************************************************)
Namespaces == {0, 1, 255, 256, 65535}

NumericValues ==
    {U32(0), U32(1), U32(255), U32(256), U32(65535), U32(65536), U32Max}

\* Texts over "a" and the two-byte "e acute", and the null text.
Texts ==
    {UAString_null} \cup {UAString_from(q) : q \in SeqsUpTo({97, 233}, MaxPayload)}

Guids == {[i \in 1..16 |-> 0], [i \in 1..16 |-> 16 * i - 1]}

ByteStrings ==
    {ByteString_null}
      \cup {ByteString_from(q) : q \in SeqsUpTo({0, 255}, MaxPayload)}

Identifiers ==
    {Numeric(n) : n \in NumericValues} \cup {String(t) : t \in Texts}
      \cup {Guid(g) : g \in Guids} \cup {ByteString(b) : b \in ByteStrings}

NodeIds == {NodeId_new(ns, id) : ns \in Namespaces, id \in Identifiers}

\* Decoding contexts: a tight limit and the default-sized one.
Contexts ==
    {[max_string_length |-> m, max_byte_string_length |-> m] : m \in {1, 65535}}

\* Streams that arrive from the wire rather than from encode.
RawStreams ==
    { <<>>, <<6>>, <<6, 1, 2>>, <<255, 0, 0, 0, 0>>, <<0>>, <<0, 7, 99>>,
      <<1, 5>>, <<1, 5, 1, 0>>, <<2, 0, 0, 5, 0, 0, 0>>, <<2, 0, 1, 5>>,
      <<3, 2, 0, 255, 255, 255, 255>>, <<3, 0, 0, 254, 255, 255, 255>>,
      <<3, 0, 0, 1, 0, 0, 0, 200>>, <<3, 0, 0, 5, 0, 0, 0, 97>>,
      <<3, 0, 0, 255, 255, 255, 127>>, <<4, 0, 0, 1, 2>>,
      <<5, 0, 0, 0, 0, 0, 128>>, <<5, 1, 0, 1, 0, 0, 0, 9, 9>>, <<5, 0>> }

InitBinary ==
    /\ IdleAlloc
    /\ IdleConfig
    /\ ctx \in Contexts
    /\ \/ v \in NodeIds /\ stream = <<>>
       \/ v = None /\ stream \in RawStreams
    /\ pos = 0
    /\ encoded = FALSE
    /\ sizeRes = None
    /\ decRes = None
    /\ text = <<>>
    /\ parsed = None
    /\ formatted = None
    /\ reparsed = None
    /\ convRes = NoConv

\* v.byte_len(ctx)
ByteLen ==
    /\ v # None
    /\ sizeRes = None
    /\ sizeRes' = [tag |-> "Ok", value |-> byte_len(v)]
    /\ UNCHANGED <<stream, pos, encoded, decRes>>

\* v.encode(&mut stream, ctx) into an empty buffer
Encode ==
    /\ v # None
    /\ ~encoded
    /\ stream' = stream \o encode(v)
    /\ encoded' = TRUE
    /\ UNCHANGED <<pos, sizeRes, decRes>>

\* NodeId::decode(&mut stream, ctx), on the encoded bytes or on wire bytes
Decode ==
    /\ encoded \/ v = None
    /\ decRes = None
    /\ LET r == decode(stream, 0, ctx)
       IN  /\ decRes' = IF r.ok THEN [tag |-> "Ok", value |-> r.value]
                        ELSE [tag |-> "Err", error |-> r.error]
           /\ pos' \in IF r.eof THEN r.pos..Len(stream) ELSE {r.pos}
    /\ UNCHANGED <<stream, encoded, sizeRes>>

NextBinary ==
    \/ ByteLen /\ UNCHANGED <<allocVars, textVars, v, ctx, convRes, cfgVars>>
    \/ Encode /\ UNCHANGED <<allocVars, textVars, v, ctx, convRes, cfgVars>>
    \/ Decode /\ UNCHANGED <<allocVars, textVars, v, ctx, convRes, cfgVars>>

SpecBinary == InitBinary /\ [][NextBinary]_vars

OkRes(value) == [tag |-> "Ok", value |-> value]

ErrRes(error) == [tag |-> "Err", error |-> error]

\* C2, as the claim states it: decoding what encode wrote returns the NodeId.
C2_RoundTrip == encoded /\ decRes # None => decRes = OkRes(v)

\* The payload of a text or byte-string id is no longer than the limit the
\* decoding context sets for it.
WithinLimits(node, c) ==
    LET id == node.identifier
    IN  /\ id.kind = "String" => Len(utf8(id.string.chars)) <= c.max_string_length
        /\ id.kind = "ByteString" =>
               Len(id.byte_string.bytes) <= c.max_byte_string_length

\* C2, amended: for every NodeId whose text or byte-string payload is within
\* the decoding context's length limits, decoding the bytes that encode wrote
\* succeeds, returns an equal NodeId and reads exactly those bytes.
C2_RoundTripWithinLimits ==
    encoded /\ decRes # None /\ WithinLimits(v, ctx) =>
        decRes = OkRes(v) /\ pos = Len(stream)

\* A text id in a two-byte namespace, and a four-byte numeric id, came back.
C2_Witness ==
    /\ encoded
    /\ decRes = OkRes(v)
    /\ \/ v = NodeId_new(256, String(UAString_from(<<233>>)))
       \/ v = NodeId_new(255, Numeric(U32(65535)))

\* C3: byte_len(v) is the number of bytes encode(v) writes, for every
\* namespace, variant and payload.
C3_ByteLenIsEncodedLength ==
    encoded /\ sizeRes # None => sizeRes = OkRes(Len(stream))

\* byte_len and encode have both run on a text whose UTF-8 length differs
\* from its number of characters.
C3_Witness ==
    /\ encoded
    /\ sizeRes = OkRes(9)
    /\ v.identifier = String(UAString_from(<<233>>))

\* C4: the layout encode selects.  Numeric: tag 0 (2 bytes) iff namespace 0
\* and value <= 255; otherwise tag 1 (4 bytes) iff namespace <= 255 and value
\* <= 65535; otherwise tag 2 (7 bytes).  Text, guid and byte string: tag 3, 4,
\* 5, then the namespace in two bytes.  With the boundary cases of the claim.
C4_LayoutPriority ==
    encoded =>
      LET id == v.identifier
          ns == v.namespace
          n == id.numeric
          tag == stream[1]
          small == ns = 0 /\ n.hi = 0 /\ n.lo <= 255
          medium == ns <= 255 /\ n.hi = 0
      IN  /\ id.kind = "Numeric" =>
                /\ tag = (IF small THEN 0 ELSE IF medium THEN 1 ELSE 2)
                /\ Len(stream) = (IF small THEN 2 ELSE IF medium THEN 4 ELSE 7)
                /\ ns \in 1..255 /\ n.hi = 0 /\ n.lo <= 255 => tag = 1
          /\ v = NodeId_new(0, Numeric(U32(255))) => tag = 0 /\ Len(stream) = 2
          /\ v = NodeId_new(0, Numeric(U32(256))) => tag = 1 /\ Len(stream) = 4
          /\ v = NodeId_new(255, Numeric(U32(65535))) => tag = 1
          /\ v = NodeId_new(256, Numeric(U32(0))) => tag = 2 /\ Len(stream) = 7
          /\ v = NodeId_new(0, Numeric(U32(65536))) => tag = 2 /\ Len(stream) = 7
          /\ id.kind # "Numeric" =>
                /\ tag = (CASE id.kind = "String" -> 3
                            [] id.kind = "Guid" -> 4
                            [] id.kind = "ByteString" -> 5)
                /\ stream[2] + 256 * stream[3] = ns

\* A small numeric value in namespace 1 was encoded in the four-byte form.
C4_Witness ==
    /\ encoded
    /\ v = NodeId_new(1, Numeric(U32(1)))
    /\ stream = <<1, 1, 1, 0>>

\* C5: decoding a stream whose first byte is not a tag 0..5 returns the
\* decoding error that names that byte, no NodeId, and reads one byte only.
C5_UnrecognizedTag ==
    v = None /\ decRes # None /\ stream # <<>> /\ stream[1] \notin 0..5 =>
        /\ decRes = ErrRes(DecodingError("Unrecognized node id type {identifier}",
                                         stream[1]))
        /\ pos = 1

\* The stream 06 01 02 was decoded, and its two last bytes are unread.
C5_Witness ==
    /\ stream = <<6, 1, 2>>
    /\ decRes # None
    /\ decRes.tag = "Err"
    /\ Len(stream) - pos = 2

(***************************************************************************)
(* Texts.  A text is the sequence of its code points.                      *)
(***************************************************************************)
\* The printable ASCII characters, from code 32 on (the double quote, the
\* backslash and the backtick by name).
Ascii ==
    << " ", "!", "quote", "#", "$", "%", "&", "'", "(", ")", "*", "+", ",",
       "-", ".", "/", "0", "1", "2", "3", "4", "5", "6", "7", "8", "9",
       ":", ";", "<", "=", ">", "?", "@", "A", "B", "C", "D", "E", "F",
       "G", "H", "I", "J", "K", "L", "M", "N", "O", "P", "Q", "R", "S",
       "T", "U", "V", "W", "X", "Y", "Z", "[", "backslash", "]", "^", "_", "backtick",
       "a", "b", "c", "d", "e", "f", "g", "h", "i", "j", "k", "l", "m",
       "n", "o", "p", "q", "r", "s", "t", "u", "v", "w", "x", "y", "z",
       "{", "|", "}", "~" >>

\* The code point of a character written as a one-character string.
Ord(ch) ==
    IF ch = "\n" THEN 10 ELSE 31 + CHOOSE i \in 1..Len(Ascii) : Ascii[i] = ch

Str(chars) == [i \in 1..Len(chars) |-> Ord(chars[i])]

IsDigit(c) == c \in 48..57

Some(x) == [some |-> TRUE, val |-> x]

Nothing == [some |-> FALSE, val |-> <<>>]

StartsWith(s, prefix) ==
    Len(s) >= Len(prefix) /\ SubSeq(s, 1, Len(prefix)) = prefix

Drop(s, n) == SubSeq(s, n + 1, Len(s))

RECURSIVE u16_digits(_)
u16_digits(n) ==
    IF n < 10 THEN <<48 + n>> ELSE Append(u16_digits(n \div 10), 48 + (n % 10))

\* Display of a u16: its decimal digits.
u16_to_string(n) == u16_digits(n)

RECURSIVE u32_to_string(_)
\* Display of a u32: its decimal digits (long division of the two halves).
u32_to_string(a) ==
    LET t == (a.hi % 10) * 65536 + a.lo
        q == [hi |-> a.hi \div 10, lo |-> t \div 10]
    IN  IF q.hi = 0 /\ q.lo = 0 THEN <<48 + (t % 10)>>
        ELSE Append(u32_to_string(q), 48 + (t % 10))

RECURSIVE parse_digits_u16(_, _)
\* The digits of s added to acc, failing on a non-digit or above u16::MAX.
parse_digits_u16(s, acc) ==
    IF s = <<>> THEN [ok |-> TRUE, value |-> acc]
    ELSE IF ~IsDigit(s[1]) \/ acc * 10 + (s[1] - 48) > 65535
      THEN [ok |-> FALSE, value |-> 0]
    ELSE parse_digits_u16(Tail(s), acc * 10 + (s[1] - 48))

\* str::parse::<u16>: an optional "+", then at least one digit.
parse_u16(s) ==
    LET digits == IF s # <<>> /\ s[1] = 43 THEN Tail(s) ELSE s
    IN  IF digits = <<>> THEN [ok |-> FALSE, value |-> 0]
        ELSE parse_digits_u16(digits, 0)

RECURSIVE parse_digits_u32(_, _)
parse_digits_u32(s, acc) ==
    IF s = <<>> THEN [ok |-> TRUE, value |-> acc]
    ELSE IF ~IsDigit(s[1]) THEN [ok |-> FALSE, value |-> U32(0)]
    ELSE
      LET lo == acc.lo * 10 + (s[1] - 48)
          hi == acc.hi * 10 + lo \div 65536
      IN  IF hi > 65535 THEN [ok |-> FALSE, value |-> U32(0)]
          ELSE parse_digits_u32(Tail(s), [hi |-> hi, lo |-> lo % 65536])

\* str::parse::<u32>
parse_u32(s) ==
    LET digits == IF s # <<>> /\ s[1] = 43 THEN Tail(s) ELSE s
    IN  IF digits = <<>> THEN [ok |-> FALSE, value |-> U32(0)]
        ELSE parse_digits_u32(digits, U32(0))

(***************************************************************************)
(* The textual forms of the payloads: a guid in its canonical hyphenated   *)
(* hexadecimal form, a byte string in base64.                              *)
(***************************************************************************)
HexDigit(n) == IF n < 10 THEN 48 + n ELSE 87 + n

\* The value of a hexadecimal digit of either case, -1 for any other character.
HexValue(c) ==
    IF c \in 48..57 THEN c - 48
    ELSE IF c \in 97..102 THEN c - 87
    ELSE IF c \in 65..70 THEN c - 55
    ELSE -1

RECURSIVE hex(_)
hex(bytes) ==
    IF bytes = <<>> THEN <<>>
    ELSE <<HexDigit(bytes[1] \div 16), HexDigit(bytes[1] % 16)>> \o hex(Tail(bytes))

\* Display of a Guid: 8-4-4-4-12 lower-case hexadecimal digits.
Guid_to_string(g) ==
    hex(SubSeq(g, 1, 4)) \o <<45>> \o hex(SubSeq(g, 5, 6)) \o <<45>>
      \o hex(SubSeq(g, 7, 8)) \o <<45>> \o hex(SubSeq(g, 9, 10)) \o <<45>>
      \o hex(SubSeq(g, 11, 16))

\* Guid::from_str: the canonical form, with digits of either case.
Guid_from_str(s) ==
    LET hyphens == {9, 14, 19, 24}
        digits == SelectSeq([i \in 1..Len(s) |-> IF i \in hyphens THEN -2 ELSE s[i]],
                            LAMBDA c : c # -2)
    IN  IF /\ Len(s) = 36
           /\ \A i \in hyphens : s[i] = 45
           /\ \A i \in 1..36 \ hyphens : HexValue(s[i]) >= 0
        THEN [ok |-> TRUE,
              value |-> [i \in 1..16 |->
                           16 * HexValue(digits[2 * i - 1]) + HexValue(digits[2 * i])]]
        ELSE [ok |-> FALSE, value |-> <<>>]

\* The base64 character of a 6-bit value.
B64Char(n) ==
    IF n < 26 THEN 65 + n
    ELSE IF n < 52 THEN 71 + n
    ELSE IF n < 62 THEN n - 4
    ELSE IF n = 62 THEN 43
    ELSE 47

\* The 6-bit value of a base64 character, -1 for any other character.
B64Value(c) ==
    IF c \in 65..90 THEN c - 65
    ELSE IF c \in 97..122 THEN c - 71
    ELSE IF c \in 48..57 THEN c + 4
    ELSE IF c = 43 THEN 62
    ELSE IF c = 47 THEN 63
    ELSE -1

RECURSIVE as_base64(_)
\* ByteString::as_base64, on the bytes: standard alphabet, padded.
as_base64(b) ==
    IF b = <<>> THEN <<>>
    ELSE IF Len(b) = 1
      THEN <<B64Char(b[1] \div 4), B64Char((b[1] % 4) * 16), 61, 61>>
    ELSE IF Len(b) = 2
      THEN <<B64Char(b[1] \div 4), B64Char((b[1] % 4) * 16 + b[2] \div 16),
             B64Char((b[2] % 16) * 4), 61>>
    ELSE <<B64Char(b[1] \div 4), B64Char((b[1] % 4) * 16 + b[2] \div 16),
           B64Char((b[2] % 16) * 4 + b[3] \div 64), B64Char(b[3] % 64)>>
           \o as_base64(SubSeq(b, 4, Len(b)))

RECURSIVE from_base64(_)
\* ByteString::from_base64, on the bytes: groups of four characters, padding
\* in the last group only, no stray bits.
from_base64(s) ==
    IF s = <<>> THEN [ok |-> TRUE, bytes |-> <<>>]
    ELSE IF Len(s) < 4 THEN [ok |-> FALSE, bytes |-> <<>>]
    ELSE
      LET a == B64Value(s[1])
          b == B64Value(s[2])
          c == B64Value(s[3])
          d == B64Value(s[4])
          last == Len(s) = 4
          rest == from_base64(SubSeq(s, 5, Len(s)))
          bad == [ok |-> FALSE, bytes |-> <<>>]
      IN  IF a < 0 \/ b < 0 THEN bad
          ELSE IF last /\ s[3] = 61 /\ s[4] = 61
            THEN IF b % 16 = 0
                 THEN [ok |-> TRUE, bytes |-> <<a * 4 + b \div 16>>]
                 ELSE bad
          ELSE IF c < 0 THEN bad
          ELSE IF last /\ s[4] = 61
            THEN IF c % 4 = 0
                 THEN [ok |-> TRUE,
                       bytes |-> <<a * 4 + b \div 16, (b % 16) * 16 + c \div 4>>]
                 ELSE bad
          ELSE IF d < 0 \/ ~rest.ok THEN bad
          ELSE [ok |-> TRUE,
                bytes |-> <<a * 4 + b \div 16, (b % 16) * 16 + c \div 4,
                            (c % 4) * 64 + d>> \o rest.bytes]

\* Display for Identifier.
Identifier_to_string(id) ==
    CASE id.kind = "Numeric" -> <<105, 61>> \o u32_to_string(id.numeric)
      [] id.kind = "String" -> <<115, 61>> \o id.string.chars
      [] id.kind = "Guid" -> <<103, 61>> \o Guid_to_string(id.guid)
      [] id.kind = "ByteString" -> <<98, 61>> \o as_base64(id.byte_string.bytes)

\* FromStr for Identifier: the type letter and "=", then the payload; the
\* text of an "s=" payload is taken as it is.
Identifier_from_str(s) ==
    LET k == SubSeq(s, 1, 2)
        payload == Drop(s, 2)
        bad == [ok |-> FALSE, value |-> NoIdentifier]
    IN  IF Len(s) < 2 THEN bad
        ELSE IF k = <<105, 61>>
          THEN LET n == parse_u32(payload)
               IN  IF n.ok THEN [ok |-> TRUE, value |-> Numeric(n.value)] ELSE bad
        ELSE IF k = <<115, 61>>
          THEN [ok |-> TRUE, value |-> String(UAString_from(payload))]
        ELSE IF k = <<103, 61>>
          THEN LET g == Guid_from_str(payload)
               IN  IF g.ok THEN [ok |-> TRUE, value |-> Guid(g.value)] ELSE bad
        ELSE IF k = <<98, 61>>
          THEN LET b == from_base64(payload)
               IN  IF b.ok
                   THEN [ok |-> TRUE, value |-> ByteString(ByteString_from(b.bytes))]
                   ELSE bad
        ELSE bad

(***************************************************************************)
(* The textual codec of NodeId.                                            *)
(***************************************************************************)
\* Display that never writes the namespace.
to_string_without_namespace(node) == Identifier_to_string(node.identifier)

\* Display that writes the namespace even when it is 0.
to_string_always_with_namespace(node) ==
    <<110, 115, 61>> \o u16_to_string(node.namespace) \o <<59>>
      \o Identifier_to_string(node.identifier)

\* Display for NodeId.
to_string(node) ==
    IF node.namespace # 0
    THEN <<110, 115, 61>> \o u16_to_string(node.namespace) \o <<59>>
           \o Identifier_to_string(node.identifier)
    ELSE Identifier_to_string(node.identifier)

RECURSIVE LeadingDigits(_)
\* The number of digits s starts with: what the greedy [0-9]+ takes.
LeadingDigits(s) ==
    IF s # <<>> /\ IsDigit(s[1]) THEN 1 + LeadingDigits(Tail(s)) ELSE 0

\* [isgb]=.+$ : a type letter, "=", and at least one character, none of
\* them a line feed, up to the end of the text.
MatchesTyped(s) ==
    /\ Len(s) >= 3
    /\ s[1] \in {105, 115, 103, 98}
    /\ s[2] = 61
    /\ \A i \in 3..Len(s) : s[i] # 10

NoMatch == [matched |-> FALSE, ns |-> Nothing, t |-> Nothing]

\* RE.captures(s) for ^(ns=(?P<ns>[0-9]+);)?(?P<t>[isgb]=.+)$ : the optional
\* group is tried first, then the match without it.
captures(s) ==
    LET n == LeadingDigits(Drop(s, 3))
    IN  IF /\ StartsWith(s, <<110, 115, 61>>)
           /\ n >= 1
           /\ Len(s) >= 4 + n
           /\ s[4 + n] = 59
           /\ MatchesTyped(Drop(s, 4 + n))
        THEN [matched |-> TRUE, ns |-> Some(SubSeq(s, 4, 3 + n)),
              t |-> Some(Drop(s, 4 + n))]
        ELSE IF MatchesTyped(s)
        THEN [matched |-> TRUE, ns |-> Nothing, t |-> Some(s)]
        ELSE NoMatch

BadNodeIdInvalid == [tag |-> "Err", error |-> "BadNodeIdInvalid"]

Panic == [tag |-> "Panic"]

\* The namespace with a failed parse taken as 0 instead of an error.
namespace_of_unwrap_or_default(ns) ==
    IF ns.some /\ parse_u16(ns.val).ok THEN parse_u16(ns.val)
    ELSE [ok |-> TRUE, value |-> 0]

\* from_str, "Check namespace (optional)": the captured digits as a u16, or 0.
namespace_of(ns) ==
    IF ns.some THEN parse_u16(ns.val) ELSE [ok |-> TRUE, value |-> 0]

\* FromStr for NodeId.
from_str(s) ==
    LET c == captures(s)
        namespace == namespace_of(c.ns)
        id == Identifier_from_str(c.t.val)
    IN  IF ~c.matched THEN BadNodeIdInvalid
        ELSE IF ~namespace.ok THEN BadNodeIdInvalid
        ELSE IF ~c.t.some THEN Panic  \* captures.name("t").unwrap()
        ELSE IF id.ok THEN [tag |-> "Ok", value |-> NodeId_new(namespace.value, id.value)]
        ELSE BadNodeIdInvalid

(***************************************************************************)
(* The inputs of the textual codec.                                        *)
(***************************************************************************)
MaxText == 4

\* "i=2253"
Text_i2253 ==
    Str(<<"i", "=", "2", "2", "5", "3">>)

\* "ns=2;s=Temperature"
Text_ns2_Temperature ==
    Str(<<"n", "s", "=", "2", ";", "s", "=", "T", "e", "m", "p", "e", "r",
            "a", "t", "u", "r", "e">>)

\* "ns=0;i=1"
Text_ns0_i1 ==
    Str(<<"n", "s", "=", "0", ";", "i", "=", "1">>)

\* "i=1"
Text_i1 ==
    Str(<<"i", "=", "1">>)

\* "ns=65536;i=1"
Text_ns65536_i1 ==
    Str(<<"n", "s", "=", "6", "5", "5", "3", "6", ";", "i", "=", "1">>)

\* "i=abc"
Text_i_abc ==
    Str(<<"i", "=", "a", "b", "c">>)

\* "ns=1;x=5"
Text_ns1_x5 ==
    Str(<<"n", "s", "=", "1", ";", "x", "=", "5">>)

\* "i="
Text_i_empty ==
    Str(<<"i", "=">>)

\* Texts picked for the grammar's edges.
PickedTexts ==
    { Text_i2253,
      Text_ns2_Temperature,
      Text_ns0_i1,
      Text_i1,
      Str(<<"n", "s", "=", "6", "5", "5", "3", "5", ";", "i", "=", "4", "2",
              "9", "4", "9", "6", "7", "2", "9", "5">>),
      Text_ns65536_i1,
      Str(<<"i", "=", "4", "2", "9", "4", "9", "6", "7", "2", "9", "6">>),
      Text_ns1_x5,
      Str(<<"x", "=", "5">>),
      Text_i_abc,
      Text_i_empty,
      Str(<<"s", "=">>),
      Str(<<"n", "s", "=", ";", "i", "=", "1">>),
      Str(<<"n", "s", "=", "1", ";">>),
      Str(<<>>),
      Str(<<"n", "s", "=", "0", "0", ";", "i", "=", "0", "0", "7">>),
      Str(<<"i", "=", "+", "5">>),
      Str(<<"i", "=", "-", "5">>),
      Str(<<"s", "=", "a", "\n", "b">>),
      Str(<<"i", "=", "1", "\n">>),
      Str(<<"n", "s", "=", "1", ";", "s", "=", "n", "s", "=", "2", ";", "i",
              "=", "3">>),
      Str(<<"s", "=", "n", "s", "=", "1", ";", "i", "=", "5">>),
      Str(<<"g", "=", "0", "F", "1", "f", "2", "F", "3", "f", "-", "4", "f",
              "5", "f", "-", "6", "f", "7", "f", "-", "8", "f", "9", "f",
              "-", "a", "f", "b", "f", "c", "f", "d", "f", "e", "f", "f",
              "f">>),
      Str(<<"n", "s", "=", "7", ";", "g", "=", "0", "0", "0", "0", "0", "0",
              "0", "0", "-", "0", "0", "0", "0", "-", "0", "0", "0", "0",
              "-", "0", "0", "0", "0", "-", "0", "0", "0", "0", "0", "0",
              "0", "0", "0", "0", "0", "0">>),
      Str(<<"g", "=", "0", "f", "1", "f", "2", "f", "3", "f", "4", "f", "5",
              "f", "6", "f", "7", "f", "8", "f", "9", "f", "a", "f", "b",
              "f", "c", "f", "d", "f", "e", "f", "f", "f">>),
      Str(<<"g", "=", "x", "y", "z">>),
      Str(<<"b", "=", "A", "P", "8", "=">>),
      Str(<<"n", "s", "=", "3", ";", "b", "=", "Y", "W", "J", "j">>),
      Str(<<"b", "=", "Q", "Q", "=", "=">>),
      Str(<<"b", "=", "Q", "Q">>),
      Str(<<"b", "=", "Q", "R", "=", "=">>),
      Str(<<"b", "=", "!", "!", "!", "!">>),
      Str(<<"N", "S", "=", "1", ";", "i", "=", "1">>),
      Str(<<"n", "s", "=", "1", ";", "I", "=", "1">>),
      Str(<<" ", "i", "=", "1">>),
      Str(<<"n", "s", "=", "1", "i", "=", "1">>),
      Str(<<"n", "s", "=", "-", "1", ";", "i", "=", "1">>),
      Str(<<"n", "s", "=", "+", "1", ";", "i", "=", "1">>),
      Str(<<"s", "=", " ">>),
      Str(<<"n", "s", "=", "1", ";", "s", "=", ";">>),
      Str(<<"n", "s", "=", "9", "9", "9", "9", "9", "9", "9", "9", "9", "9",
              "9", ";", "i", "=", "1">>),
      Str(<<"i", "=", "9", "9", "9", "9", "9", "9", "9", "9", "9", "9",
              "9">>),
      Str(<<"n", "s", "=", "2", "5", "5", ";", "i", "=", "0">>),
      Str(<<"n", "s", "=", "1", ";", "i", "=", "0">>) }

\* "ns=1;s=" and an e acute, "s=" and an e acute
AccentedTexts == {Str(<<"n", "s", "=", "1", ";", "s", "=">>) \o <<233>>,
                  Str(<<"s", "=">>) \o <<233>>}

\* Every text of at most MaxText characters over n s = ; i 1.
ShortTexts == SeqsUpTo({110, 115, 61, 59, 105, 49}, MaxText)

TextInputs == PickedTexts \cup AccentedTexts \cup ShortTexts

\* The NodeIds handed to Display directly: those with a payload present.
TextNodeIds ==
    {n \in NodeIds :
        /\ n.identifier.kind = "String" => ~n.identifier.string.null
        /\ n.identifier.kind = "ByteString" => ~n.identifier.byte_string.null}

InitText ==
    /\ IdleAlloc
    /\ IdleConfig
    /\ ctx = None
    /\ stream = <<>>
    /\ pos = 0
    /\ encoded = FALSE
    /\ sizeRes = None
    /\ decRes = None
    /\ \/ v \in TextNodeIds /\ text = <<>> /\ parsed = [tag |-> "NotParsed"]
       \/ v = None /\ text \in TextInputs /\ parsed = None
    /\ formatted = None
    /\ reparsed = None
    /\ convRes = NoConv

\* text.parse::<NodeId>()
Parse ==
    /\ parsed = None
    /\ parsed' = from_str(text)
    /\ v' = IF parsed'.tag = "Ok" THEN parsed'.value ELSE v
    /\ UNCHANGED <<text, formatted, reparsed>>

\* v.to_string()
Format ==
    /\ v # None
    /\ formatted = None
    /\ formatted' = [tag |-> "Ok", value |-> to_string(v)]
    /\ UNCHANGED <<text, parsed, reparsed, v>>

\* formatted.parse::<NodeId>()
Reparse ==
    /\ formatted # None
    /\ reparsed = None
    /\ reparsed' = from_str(formatted.value)
    /\ UNCHANGED <<text, parsed, formatted, v>>

NextText ==
    \/ Parse /\ UNCHANGED <<allocVars, binVars, convRes, cfgVars>>
    \/ Format /\ UNCHANGED <<allocVars, binVars, convRes, cfgVars>>
    \/ Reparse /\ UNCHANGED <<allocVars, binVars, convRes, cfgVars>>

SpecText == InitText /\ [][NextText]_vars

\* C7: for every NodeId that from_str returned, parsing its Display output
\* succeeds and returns an equal NodeId.
C7_TextRoundTrip ==
    parsed.tag = "Ok" /\ reparsed # None => reparsed = OkRes(parsed.value)

\* A guid written in upper case was parsed, formatted differently from the
\* input, and parsed again to the same value.
C7_Witness ==
    /\ parsed.tag = "Ok"
    /\ parsed.value.identifier.kind = "Guid"
    /\ formatted # None
    /\ formatted.value # text
    /\ reparsed = parsed

NsPrefix == Str(<<"n", "s", "=">>)

\* C8: the output starts with "ns=<n>;" exactly when the namespace is not 0;
\* an input without the prefix parses to namespace 0; "ns=0;i=1" and "i=1"
\* parse to {0, Numeric(1)}, which formats as "i=1"; "ns=2;s=Temperature"
\* parses to {2, String("Temperature")} and formats back to the same text.
C8_NamespacePrefix ==
    /\ formatted # None =>
          (StartsWith(formatted.value, NsPrefix) <=> v.namespace # 0)
    /\ formatted # None /\ v.namespace # 0 =>
          StartsWith(formatted.value,
                     NsPrefix \o u16_to_string(v.namespace) \o <<59>>)
    /\ parsed.tag = "Ok" /\ ~StartsWith(text, NsPrefix) =>
          parsed.value.namespace = 0
    /\ text \in {Text_ns0_i1, Text_i1} /\ parsed # None =>
          parsed = OkRes(NodeId_new(0, Numeric(U32(1))))
    /\ text \in {Text_ns0_i1, Text_i1} /\ formatted # None =>
          formatted.value = Text_i1
    /\ text = Text_ns2_Temperature /\ parsed # None =>
          parsed = OkRes(NodeId_new(2, String(UAString_from(Drop(text, 7)))))
    /\ text = Text_ns2_Temperature /\ formatted # None => formatted.value = text

\* "ns=0;i=1" was parsed and formatted as "i=1".
C8_Witness ==
    /\ text = Text_ns0_i1
    /\ parsed.tag = "Ok"
    /\ formatted # None
    /\ formatted.value = Text_i1

\* from_str has run on text.
Parsed == parsed.tag \notin {"None", "NotParsed"}

\* C9: from_str returns a NodeId or the one error BadNodeIdInvalid and never
\* panics; it returns that error for a text outside the grammar, a namespace
\* above 65535, an unknown type letter, an empty payload and a payload that
\* is malformed for its type.
C9_FromStrTotal ==
    /\ Parsed => parsed.tag = "Ok" \/ parsed = BadNodeIdInvalid
    /\ reparsed # None => reparsed.tag = "Ok" \/ reparsed = BadNodeIdInvalid
    /\ /\ Parsed
       /\ text \in {<<>>, Text_ns65536_i1, Text_ns1_x5, Text_i_empty, Text_i_abc}
       => parsed = BadNodeIdInvalid

\* "ns=65536;i=1" was parsed and rejected.
C9_Witness ==
    /\ text = Text_ns65536_i1
    /\ parsed = BadNodeIdInvalid

(***************************************************************************)
(* Null, default and the conversions to the well-known enumerations.       *)
(***************************************************************************)
\* is_null without the namespace test.
is_null_in_any_namespace(node) == node.identifier = Numeric(U32(0))

\* NodeId::is_null
is_null(node) == node.namespace = 0 /\ node.identifier = Numeric(U32(0))

\* NodeId::null
null == NodeId_new(0, Numeric(U32(0)))

\* Default for NodeId
default == null

\* The closed enumerations, each by the numeric values of some of its
\* members: RootFolder, ObjectsFolder, TypesFolder, ViewsFolder, Server; ...
ObjectIds == {84, 85, 86, 87, 2253}

VariableIds == {2254, 2255, 2256}

ReferenceTypeIds == {31, 32, 33, 35, 47}

DataTypeIds == {1, 12, 24}

MethodIds == {11489, 11492}

\* <Enum>::try_from(u32): the member with that value, if there is one.
try_from(enum, members, id) ==
    IF id.hi = 0 /\ id.lo \in members
    THEN [ok |-> TRUE, value |-> [enum |-> enum, value |-> id.lo]]
    ELSE [ok |-> FALSE, value |-> [enum |-> enum, value |-> 0]]

NodeIdError == [tag |-> "Err", error |-> "NodeIdError"]

\* The body the five conversions share: a numeric id of namespace 0 is looked
\* up in the enumeration, and every failure becomes NodeIdError.
as_enum_id(node, enum, members) ==
    IF node.identifier.kind = "Numeric" /\ node.namespace = 0
    THEN LET r == try_from(enum, members, node.identifier.numeric)
         IN  IF r.ok THEN OkRes(r.value) ELSE NodeIdError
    ELSE NodeIdError

\* as_object_id without the guard on the namespace.
as_object_id_in_any_namespace(node) ==
    IF node.identifier.kind = "Numeric"
    THEN LET r == try_from("ObjectId", ObjectIds, node.identifier.numeric)
         IN  IF r.ok THEN OkRes(r.value) ELSE NodeIdError
    ELSE NodeIdError

\* NodeId::as_object_id
as_object_id(node) == as_enum_id(node, "ObjectId", ObjectIds)

\* NodeId::as_variable_id
as_variable_id(node) == as_enum_id(node, "VariableId", VariableIds)

\* NodeId::as_reference_type_id: the null id is refused before the lookup.
as_reference_type_id(node) ==
    IF is_null(node) THEN NodeIdError
    ELSE as_enum_id(node, "ReferenceTypeId", ReferenceTypeIds)

\* NodeId::as_data_type_id
as_data_type_id(node) == as_enum_id(node, "DataTypeId", DataTypeIds)

\* NodeId::as_method_id
as_method_id(node) == as_enum_id(node, "MethodId", MethodIds)

\* The inputs: the NodeIds of the codecs, and every enumeration value (with
\* its neighbours 0 and 88) in each namespace.
ConvNodeIds ==
    NodeIds \cup
      {NodeId_new(ns, Numeric(U32(n))) :
          ns \in Namespaces,
          n \in ObjectIds \cup VariableIds \cup ReferenceTypeIds \cup DataTypeIds
                  \cup MethodIds \cup {0, 88}}

InitConv ==
    /\ IdleAlloc
    /\ IdleConfig
    /\ v \in ConvNodeIds
    /\ ctx = None
    /\ stream = <<>>
    /\ pos = 0
    /\ encoded = FALSE
    /\ sizeRes = None
    /\ decRes = None
    /\ text = <<>>
    /\ parsed = None
    /\ formatted = None
    /\ reparsed = None
    /\ convRes = NoConv

\* One operation is applied to v and its result kept.
Apply(op, result) ==
    /\ convRes = NoConv
    /\ convRes' = [op |-> op, result |-> result]

NextConv ==
    \/ Apply("is_null", is_null(v)) /\ UNCHANGED <<allocVars, binVars, textVars, v, cfgVars>>
    \/ Apply("null", null) /\ UNCHANGED <<allocVars, binVars, textVars, v, cfgVars>>
    \/ Apply("default", default) /\ UNCHANGED <<allocVars, binVars, textVars, v, cfgVars>>
    \/ Apply("as_object_id", as_object_id(v))
         /\ UNCHANGED <<allocVars, binVars, textVars, v, cfgVars>>
    \/ Apply("as_variable_id", as_variable_id(v))
         /\ UNCHANGED <<allocVars, binVars, textVars, v, cfgVars>>
    \/ Apply("as_reference_type_id", as_reference_type_id(v))
         /\ UNCHANGED <<allocVars, binVars, textVars, v, cfgVars>>
    \/ Apply("as_data_type_id", as_data_type_id(v))
         /\ UNCHANGED <<allocVars, binVars, textVars, v, cfgVars>>
    \/ Apply("as_method_id", as_method_id(v))
         /\ UNCHANGED <<allocVars, binVars, textVars, v, cfgVars>>

SpecConv == InitConv /\ [][NextConv]_vars

\* v is the numeric id 0 of namespace 0, field by field.
IsZeroOfNamespaceZero(node) ==
    /\ node.namespace = 0
    /\ node.identifier.kind = "Numeric"
    /\ node.identifier.numeric.hi = 0
    /\ node.identifier.numeric.lo = 0

\* C6: null() and default() are {namespace 0, Numeric(0)}, and is_null() is
\* true of exactly that value: not of Numeric(0) in another namespace, of
\* another number in namespace 0, or of a text, guid or byte-string id (a null
\* or empty text in namespace 0 included).
C6_NullIdentity ==
    /\ convRes.op = "is_null" => (convRes.result <=> IsZeroOfNamespaceZero(v))
    /\ convRes.op \in {"null", "default"} =>
          /\ IsZeroOfNamespaceZero(convRes.result)
          /\ convRes.result = NodeId_new(0, Numeric(U32(0)))
    /\ /\ convRes.op = "is_null"
       /\ v \in {NodeId_new(1, Numeric(U32(0))), NodeId_new(0, Numeric(U32(1))),
                 NodeId_new(0, String(UAString_null)),
                 NodeId_new(0, String(UAString_from(<<>>)))}
       => convRes.result = FALSE

\* is_null() has answered FALSE for Numeric(0) in namespace 1.
C6_Witness ==
    /\ convRes.op = "is_null"
    /\ v = NodeId_new(1, Numeric(U32(0)))
    /\ convRes.result = FALSE

\* The enumeration each conversion looks the value up in.
EnumOf(op) ==
    CASE op = "as_object_id" -> [enum |-> "ObjectId", members |-> ObjectIds]
      [] op = "as_variable_id" -> [enum |-> "VariableId", members |-> VariableIds]
      [] op = "as_reference_type_id" ->
           [enum |-> "ReferenceTypeId", members |-> ReferenceTypeIds]
      [] op = "as_data_type_id" -> [enum |-> "DataTypeId", members |-> DataTypeIds]
      [] op = "as_method_id" -> [enum |-> "MethodId", members |-> MethodIds]

\* C10: each as_*_id returns Ok(member) iff the NodeId is numeric, of namespace
\* 0, and its value is a member of the enumeration; otherwise Err(NodeIdError).
\* A well-known object id converts in namespace 0 and not in namespace 1.
C10_ConversionBoundary ==
    convRes.op \in {"as_object_id", "as_variable_id", "as_reference_type_id",
                    "as_data_type_id", "as_method_id"} =>
      LET e == EnumOf(convRes.op)
          member == /\ v.namespace = 0
                    /\ v.identifier.kind = "Numeric"
                    /\ v.identifier.numeric.hi = 0
                    /\ v.identifier.numeric.lo \in e.members
      IN  /\ convRes.result.tag = "Ok" <=> member
          /\ member => convRes.result =
                 OkRes([enum |-> e.enum, value |-> v.identifier.numeric.lo])
          /\ ~member => convRes.result = NodeIdError
          /\ convRes.op = "as_object_id" /\ v = NodeId_new(1, Numeric(U32(85)))
               => convRes.result = NodeIdError

\* as_object_id has refused ObjectsFolder's value in namespace 1.
C10_Witness ==
    /\ convRes.op = "as_object_id"
    /\ v = NodeId_new(1, Numeric(U32(85)))
    /\ convRes.result = NodeIdError

\* The ids as_reference_type_id refuses for another reason than being null: a
\* non-numeric id, a numeric id outside namespace 0, a value that is no
\* ReferenceTypeId.
RefusedNonNull ==
    {n \in ConvNodeIds : ~is_null(n) /\ as_reference_type_id(n).tag = "Err"}

\* C11: the error as_reference_type_id returns for the null NodeId differs
\* from the error it returns for every other id it refuses (a non-numeric id,
\* an id of a non-zero namespace, an unmapped numeric value).
C11_NullErrorIsDistinct ==
    (convRes.op = "as_reference_type_id" /\ is_null(v)) =>
        /\ convRes.result.tag = "Err"
        /\ \A n \in RefusedNonNull : as_reference_type_id(n) # convRes.result

\* as_reference_type_id has refused the null NodeId, and refuses a text id, an
\* id of namespace 1 and the unmapped value 88 as well.
C11_Witness ==
    /\ convRes.op = "as_reference_type_id"
    /\ v = null
    /\ convRes.result.tag = "Err"
    /\ {NodeId_new(0, String(UAString_from(<<>>))), NodeId_new(1, Numeric(U32(31))),
        NodeId_new(0, Numeric(U32(88)))} \subseteq RefusedNonNull

\* The allocator late in the life of the process: 2^32 - 2 calls have
\* returned the values 1 .. 2^32 - 2 and left the counter at u32::MAX. Of those
\* results returned keeps the first one only, still held by t1.
InitWrap ==
    /\ NEXT_NODE_ID_NUMERIC = U32Max
    /\ pc = [t \in Threads |-> "idle"]
    /\ arg = [t \in Threads |-> 0]
    /\ fetched = [t \in Threads |-> U32(0)]
    /\ \E namespace \in AllocNamespaces :
          returned = [t \in Threads |->
                        IF t = "t1" THEN <<NodeId_new(namespace, Numeric(U32(1)))>>
                        ELSE <<>>]
    /\ IdlePure

SpecWrap == InitWrap /\ [][Next]_vars

\* The numeric values returned so far, with the thread and position of each.
ReturnedAt == {<<t, i>> : t \in Threads, i \in 1..MaxCalls + 1}

\* C12: next_numeric never returns a numeric value it has already returned,
\* whatever the namespaces of the calls and however many calls were made
\* (more than 2^32 included).
C12_NeverRepeats ==
    \A a, b \in ReturnedAt :
        (/\ a # b
         /\ a[2] <= Len(returned[a[1]])
         /\ b[2] <= Len(returned[b[1]]))
        => returned[a[1]][a[2]].identifier.numeric
             # returned[b[1]][b[2]].identifier.numeric

\* The counter has passed u32::MAX: a call has returned the value 0.
C12_Witness ==
    \E t \in Threads : \E i \in 1..Len(returned[t]) :
        returned[t][i].identifier.numeric = U32(0)

\* The fetch_adds that have taken effect so far.
Fetches ==
    LET n[S \in SUBSET Threads] ==
            IF S = {} THEN 0
            ELSE LET t == CHOOSE x \in S : TRUE
                 IN  Len(returned[t]) + (IF pc[t] = "new" THEN 1 ELSE 0)
                       + n[S \ {t}]
    IN  n[Threads]

NoNumber == [kind |-> "", digits |-> <<>>]

\* serde_yaml::Value::Null
Value_Null ==
    [tag |-> "Null", bool |-> FALSE, number |-> NoNumber, string |-> <<>>,
     items |-> <<>>]

\* serde_yaml::Value::Bool
Value_Bool(b) == [Value_Null EXCEPT !.tag = "Bool", !.bool = b]

\* serde_yaml::Value::Number
Value_Number(n) == [Value_Null EXCEPT !.tag = "Number", !.number = n]

\* serde_yaml::Value::String
Value_String(chars) == [Value_Null EXCEPT !.tag = "String", !.string = chars]

\* serde_yaml::Value::Sequence: the items have no key.
Value_Sequence(values) ==
    [Value_Null EXCEPT
       !.tag = "Sequence",
       !.items = [i \in 1..Len(values) |-> [key |-> Value_Null, value |-> values[i]]]]

\* serde_yaml::Value::Mapping, from its <<key, value>> pairs in order.
Value_Mapping(pairs) ==
    [Value_Null EXCEPT
       !.tag = "Mapping",
       !.items = [i \in 1..Len(pairs) |-> [key |-> pairs[i][1], value |-> pairs[i][2]]]]

RECURSIVE StripZeros(_)
\* The digits without leading zeros ("0" for zero).
StripZeros(digits) ==
    IF Len(digits) > 1 /\ digits[1] = 48 THEN StripZeros(Tail(digits)) ELSE digits

RECURSIVE DigitsLe(_, _)
\* a <= b for two digit strings of the same length.
DigitsLe(a, b) ==
    \/ a = <<>>
    \/ a[1] < b[1]
    \/ a[1] = b[1] /\ DigitsLe(Tail(a), Tail(b))

\* a <= b for two decimal numbers without leading zeros.
DecimalLe(a, b) == Len(a) < Len(b) \/ (Len(a) = Len(b) /\ DigitsLe(a, b))

AllDigits(chars) == chars # <<>> /\ \A i \in 1..Len(chars) : IsDigit(chars[i])

\* i64::MAX, -i64::MIN and u64::MAX in decimal.
I64Max == Str(<<"9","2","2","3","3","7","2","0","3","6","8","5","4","7","7","5","8","0","7">>)

I64MinMagnitude ==
    Str(<<"9","2","2","3","3","7","2","0","3","6","8","5","4","7","7","5","8","0","8">>)

U64Max ==
    Str(<<"1","8","4","4","6","7","4","4","0","7","3","7","0","9","5","5","1","6","1","5">>)

\* serde_yaml::Number from an i64 / u64: PosInt for zero and above, NegInt below.
PosInt(digits) == [kind |-> "PosInt", digits |-> digits]

NegInt(digits) == [kind |-> "NegInt", digits |-> digits]

Float(chars) == [kind |-> "Float", digits |-> chars]

\* str::parse::<bool>: exactly "true" or "false".
parse_bool(chars) ==
    IF chars = Str(<<"t","r","u","e">>) THEN Some(TRUE)
    ELSE IF chars = Str(<<"f","a","l","s","e">>) THEN Some(FALSE)
    ELSE Nothing

\* str::parse::<i64>, then Number::from: an optional "+" or "-", at least one
\* digit, nothing else, and the value within i64.
parse_i64(chars) ==
    LET signed == chars # <<>> /\ chars[1] \in {43, 45}
        negative == signed /\ chars[1] = 45
        digits == IF signed THEN Tail(chars) ELSE chars
        magnitude == StripZeros(digits)
    IN  IF ~AllDigits(digits) THEN Nothing
        ELSE IF negative
          THEN IF ~DecimalLe(magnitude, I64MinMagnitude) THEN Nothing
               ELSE IF magnitude = <<48>> THEN Some(PosInt(magnitude))
               ELSE Some(NegInt(magnitude))
        ELSE IF DecimalLe(magnitude, I64Max) THEN Some(PosInt(magnitude))
        ELSE Nothing

\* str::parse::<u64>, then Number::from: an optional "+", at least one digit,
\* nothing else, and the value within u64.
parse_u64(chars) ==
    LET digits == IF chars # <<>> /\ chars[1] = 43 THEN Tail(chars) ELSE chars
        magnitude == StripZeros(digits)
    IN  IF AllDigits(digits) /\ DecimalLe(magnitude, U64Max)
          THEN Some(PosInt(magnitude))
        ELSE Nothing

\* The ASCII letters in lower case.
to_ascii_lowercase(chars) ==
    [i \in 1..Len(chars) |-> IF chars[i] \in 65..90 THEN chars[i] + 32 ELSE chars[i]]

\* The length of the run of digits chars starts with.
DigitRun(chars) ==
    CHOOSE n \in 0..Len(chars) :
        /\ \A i \in 1..n : IsDigit(chars[i])
        /\ n < Len(chars) => ~IsDigit(chars[n + 1])

\* str::parse::<f64>, then Number::from: an optional sign, then "inf",
\* "infinity" or "nan" in any case, or digits with at most one "." among them
\* (at least one digit) and an optional exponent "e" or "E", optional sign,
\* digits.
parse_f64(chars) ==
    LET signed == chars # <<>> /\ chars[1] \in {43, 45}
        body == IF signed THEN Tail(chars) ELSE chars
        int == DigitRun(body)
        afterInt == Drop(body, int)
        dotted == afterInt # <<>> /\ afterInt[1] = 46
        afterDot == IF dotted THEN Tail(afterInt) ELSE afterInt
        frac == IF dotted THEN DigitRun(afterDot) ELSE 0
        rest == Drop(afterDot, frac)
        exponent == IF rest # <<>> /\ rest[1] \in {69, 101} THEN Tail(rest) ELSE <<>>
        expDigits == IF exponent # <<>> /\ exponent[1] \in {43, 45}
                       THEN Tail(exponent) ELSE exponent
    IN  IF to_ascii_lowercase(body)
             \in {Str(<<"i","n","f">>), Str(<<"i","n","f","i","n","i","t","y">>),
                  Str(<<"n","a","n">>)}
          THEN Some(Float(chars))
        ELSE IF int + frac > 0 /\ (rest = <<>> \/ (rest[1] \in {69, 101} /\ AllDigits(expDigits)))
          THEN Some(Float(chars))
        ELSE Nothing

\* std::env::var: the value of a variable, or nothing when it is not set.
env_var(e, name) == IF name \in DOMAIN e THEN e[name] ELSE Nothing

\* The index of the first c in chars, 0 when there is none.
Find(chars, c) ==
    IF \E i \in 1..Len(chars) : chars[i] = c
      THEN CHOOSE i \in 1..Len(chars) : chars[i] = c /\ \A j \in 1..i - 1 : chars[j] # c
    ELSE 0

\* The index of the first ":-" in chars, 0 when there is none.
FindDefaultSplit(chars) ==
    LET at(i) == chars[i] = 58 /\ chars[i + 1] = 45
    IN  IF \E i \in 1..Len(chars) - 1 : at(i)
          THEN CHOOSE i \in 1..Len(chars) - 1 : at(i) /\ \A j \in 1..i - 1 : ~at(j)
        ELSE 0

\* shellexpand's is_valid_var_name_char, for ASCII.
IsVarNameChar(c) == IsDigit(c) \/ c \in 65..90 \/ c \in 97..122 \/ c = 95

\* The length of the run of variable-name characters chars starts with.
NameRun(chars) ==
    CHOOSE n \in 0..Len(chars) :
        /\ \A i \in 1..n : IsVarNameChar(chars[i])
        /\ n < Len(chars) => ~IsVarNameChar(chars[n + 1])

\* What was expanded so far, followed by the expansion of the rest.
Expanded(prefix, rest) == IF rest.some THEN Some(prefix \o rest.val) ELSE Nothing

RECURSIVE shellexpand_env(_, _)
\* shellexpand::env: "$$" gives "$"; "$NAME" and "${NAME}" give the value of
\* the variable and fail when it is not set; "${NAME:-default}" gives the
\* default, as written, when the variable is not set; the brace closes at the
\* first "}"; a "$" followed by anything else stays.
shellexpand_env(e, chars) ==
    LET dollar == Find(chars, 36)
        before == SubSeq(chars, 1, dollar - 1)
        input == Drop(chars, dollar - 1)
        next == IF Len(input) > 1 THEN input[2] ELSE 0
        closing == Find(input, 125)
        split == FindDefaultSplit(SubSeq(input, 1, closing - 1))
        hasDefault == split # 0 /\ split # 3
        braced == env_var(e, SubSeq(input, 3, (IF hasDefault THEN split ELSE closing) - 1))
        run == NameRun(Tail(input))
        plain == env_var(e, SubSeq(input, 2, run + 1))
    IN  IF dollar = 0 THEN Some(chars)
        ELSE IF next = 123 /\ closing = 0
          THEN Expanded(before \o <<36, 123>>, shellexpand_env(e, Drop(input, 2)))
        ELSE IF next = 123
          THEN IF braced.some
                 THEN Expanded(before \o braced.val, shellexpand_env(e, Drop(input, closing)))
               ELSE IF hasDefault
                 THEN Expanded(before \o SubSeq(input, split + 2, closing - 1),
                               shellexpand_env(e, Drop(input, closing)))
               ELSE Nothing
        ELSE IF next = 36
          THEN Expanded(before \o <<36>>, shellexpand_env(e, Drop(input, 2)))
        ELSE IF run > 0
          THEN IF plain.some
                 THEN Expanded(before \o plain.val, shellexpand_env(e, Drop(input, run + 1)))
               ELSE Nothing
        ELSE Expanded(before \o <<36>>, shellexpand_env(e, Drop(input, 1)))

\* The or_else chain of expand_env_in_value without its parse::<f64> step.
retype_without_f64(chars) ==
    IF chars \in {Str(<<"n","u","l","l">>), Str(<<"~">>)} THEN Value_Null
    ELSE IF parse_bool(chars).some THEN Value_Bool(parse_bool(chars).val)
    ELSE IF parse_i64(chars).some THEN Value_Number(parse_i64(chars).val)
    ELSE IF parse_u64(chars).some THEN Value_Number(parse_u64(chars).val)
    ELSE Value_String(chars)

\* expand_env_in_value, the value given to an expanded string: null, a bool,
\* an i64, a u64, an f64, and a string when it is none of them.
retype(chars) ==
    IF chars \in {Str(<<"n","u","l","l">>), Str(<<"~">>)} THEN Value_Null
    ELSE IF parse_bool(chars).some THEN Value_Bool(parse_bool(chars).val)
    ELSE IF parse_i64(chars).some THEN Value_Number(parse_i64(chars).val)
    ELSE IF parse_u64(chars).some THEN Value_Number(parse_u64(chars).val)
    ELSE IF parse_f64(chars).some THEN Value_Number(parse_f64(chars).val)
    ELSE Value_String(chars)

\* The Value::String arm with a failed expansion leaving the string as it is.
expand_string_keeping_failures(e, chars) ==
    IF shellexpand_env(e, chars).some THEN retype(shellexpand_env(e, chars).val)
    ELSE Value_String(chars)

\* expand_env_in_value, the Value::String arm: a failed expansion gives null.
expand_string(e, chars) ==
    IF shellexpand_env(e, chars).some THEN retype(shellexpand_env(e, chars).val)
    ELSE Value_Null

RECURSIVE expand_env_in_value(_, _)
\* expand_env_in_value: strings are expanded, the values of sequences and
\* mappings visited, everything else (the keys of mappings too) left alone.
expand_env_in_value(e, value) ==
    IF value.tag = "String" THEN expand_string(e, value.string)
    ELSE IF value.tag \in {"Sequence", "Mapping"}
      THEN [value EXCEPT
              !.items = [i \in 1..Len(value.items) |->
                           [key |-> value.items[i].key,
                            value |-> expand_env_in_value(e, value.items[i].value)]]]
    ELSE value

\* ConfigError, with the list of validation errors of ConfigInvalid.
ConfigError(kind, errors) == ErrRes([kind |-> kind, errors |-> errors])

\* The types T that DummyConfig<T> is loaded as.
Types == {"String", "Option<String>", "bool", "Option<bool>", "i64", "u64"}

IsOption(type) == type \in {"Option<String>", "Option<bool>"}

\* A DummyConfig<T>: its field value is kept as the YAML value it is written
\* as (None as null). unserializable marks an implementor whose Serialize
\* fails.
DummyConfig(type, value) == [type |-> type, value |-> value, unserializable |-> FALSE]

RECURSIVE field_from_value(_, _)
\* serde_yaml::from_value for one field of type T.
field_from_value(value, type) ==
    IF IsOption(type)
      THEN IF value.tag = "Null" THEN OkRes(Value_Null)
           ELSE field_from_value(value, IF type = "Option<String>" THEN "String" ELSE "bool")
    ELSE IF \/ type = "String" /\ value.tag = "String"
            \/ type = "bool" /\ value.tag = "Bool"
            \/ /\ type = "i64"
               /\ value.tag = "Number"
               /\ \/ value.number.kind = "NegInt"
                  \/ value.number.kind = "PosInt" /\ DecimalLe(value.number.digits, I64Max)
            \/ type = "u64" /\ value.tag = "Number" /\ value.number.kind = "PosInt"
      THEN OkRes(value)
    ELSE ConfigError("Yaml", <<>>)

\* serde_yaml::from_value::<DummyConfig<T>>: from a mapping by the key
\* "value" (other keys are ignored, a missing Option is None), from a sequence
\* by position.
from_value(value, type) ==
    LET named == {i \in 1..Len(value.items) :
                     value.items[i].key = Value_String(Str(<<"v","a","l","u","e">>))}
        field ==
            IF value.tag = "Mapping" /\ named # {}
              THEN field_from_value(value.items[CHOOSE i \in named : TRUE].value, type)
            ELSE IF value.tag = "Mapping" /\ IsOption(type) THEN OkRes(Value_Null)
            ELSE IF value.tag = "Sequence" /\ Len(value.items) = 1
              THEN field_from_value(value.items[1].value, type)
            ELSE ConfigError("Yaml", <<>>)
    IN  IF value.tag = "Mapping" /\ \E i \in 1..Len(value.items) : value.items[i].key.tag # "String"
          THEN ConfigError("Yaml", <<>>)
        ELSE IF field.tag = "Ok" THEN OkRes(DummyConfig(type, field.value))
        ELSE field

\* serde_yaml::to_string of a DummyConfig<T>: the mapping of its one field.
to_string_yaml(object) ==
    IF object.unserializable THEN ConfigError("Yaml", <<>>)
    ELSE OkRes(Value_Mapping(<< <<Value_String(Str(<<"v","a","l","u","e">>)), object.value>> >>))

\* Config::validate of the implementor: DummyConfig accepts every object,
\* another implementor refuses some with its list of errors.
validate(r, object) ==
    IF object.value \in r.refused THEN ErrRes(r.errors) ELSE OkRes(<<>>)

\* validate() of DummyConfig, and of an implementor that wants its value set.
Rules ==
    { [refused |-> {}, errors |-> <<>>],
      [refused |-> {Value_Null, Value_String(<<>>)},
       errors |-> <<"value is not set", "application name is empty">>] }

\* The file at the path: whether it exists, whether File::create succeeds
\* for the path, and what it holds.
FileContent(tag, doc) == [tag |-> tag, doc |-> doc]

NoFile(creatable) ==
    [exists |-> FALSE, creatable |-> creatable, content |-> FileContent("", Value_Null)]

FileOf(creatable, content) ==
    [exists |-> TRUE, creatable |-> creatable, content |-> content]

\* The one variable the environments set or leave unset; every other name is
\* unset.
VarV == Str(<<"V">>)

EnvValues ==
    { <<>>, Str(<<"n","u","l","l">>), Str(<<"~">>), Str(<<"t","r","u","e">>),
      Str(<<"T","r","u","e">>), Str(<<"0">>), Str(<<"-">>) \o I64MinMagnitude, I64Max,
      U64Max, Str(<<"1",".","5">>), Str(<<"a","b","c">>) }

Envs ==
    {[name \in {VarV} |-> Nothing]} \cup {[name \in {VarV} |-> Some(x)] : x \in EnvValues}

\* The strings of the documents: references to V in every form, and plain
\* text that the expansion leaves as it is and then gives a type to.
DocStrings ==
    { Str(<<"$","V">>), Str(<<"$","{","V","}">>), Str(<<"$","{","V",":","-","d","}">>),
      Str(<<"a","$","{","V","}">>), Str(<<"$","{","V",":","-","$","{","F","}","}">>),
      Str(<<"$","$","V">>), Str(<<"$","{","V">>), Str(<<"$">>),
      Str(<<"a","b","c">>), Str(<<"t","r","u","e">>), Str(<<"T","R","U","E">>),
      Str(<<"~">>), Str(<<"1","e","3">>), Str(<<"n","a","n">>), Str(<<"-","7">>),
      U64Max \o <<48>> }

Seven == Value_Number(PosInt(Str(<<"7">>)))

\* DummyConfig documents with one scalar value.
FlatDocuments ==
    {Value_Mapping(<< <<Value_String(Str(<<"v","a","l","u","e">>)), x>> >>) :
        x \in {Value_String(s) : s \in DocStrings}
                \cup {Value_Null, Value_Bool(TRUE), Seven}}

\* Documents with strings below sequences and mappings, as values and as keys.
NestedDocuments ==
    {Value_Mapping(<<
        <<Value_String(Str(<<"v","a","l","u","e">>)), Value_String(s)>>,
        <<Value_String(s),
          Value_Sequence(<<Value_String(s), Seven,
                           Value_Mapping(<< <<Value_String(s),
                                              Value_Sequence(<<Value_String(s)>>)>>,
                                            <<Seven, Value_Bool(FALSE)>> >>)>>)>> >>) :
        s \in DocStrings}

\* Documents that are no mapping with a value.
OtherDocuments ==
    {Value_Mapping(<<>>), Value_Null, Value_Sequence(<<Value_String(Str(<<"$","V">>))>>),
     Value_Sequence(<<>>),
     Value_Mapping(<< <<Seven, Value_String(Str(<<"$","V">>))>> >>)}

Documents == FlatDocuments \cup NestedDocuments \cup OtherDocuments

\* A process about to call load::<DummyConfig<T>>(path). Without the feature
\* the document is read straight into the typed object; only the types for
\* which that reading and from_value agree are loaded then.
InitLoad ==
    /\ env_expansion \in BOOLEAN
    /\ env \in (IF env_expansion THEN Envs ELSE {[name \in {VarV} |-> Nothing]})
    /\ file \in {NoFile(TRUE), FileOf(TRUE, FileContent("Malformed", Value_Null))}
                  \cup {FileOf(TRUE, FileContent("Document", d)) : d \in Documents}
    /\ config = None
    /\ rules \in Rules
    /\ target \in (IF env_expansion THEN Types ELSE Types \ {"String", "Option<String>"})
    /\ cfgPc = "load"
    /\ yaml = None
    /\ expanded = None
    /\ cfgRes = None

\* The objects save is called on.
Configs ==
    { DummyConfig("String", Value_String(Str(<<"a","b","c">>))),
      DummyConfig("String", Value_String(<<>>)),
      DummyConfig("Option<String>", Value_Null),
      DummyConfig("bool", Value_Bool(TRUE)),
      [DummyConfig("bool", Value_Bool(TRUE)) EXCEPT !.unserializable = TRUE],
      [DummyConfig("Option<String>", Value_Null) EXCEPT !.unserializable = TRUE] }

\* A process about to call config.save(path).
InitSave ==
    /\ env_expansion \in BOOLEAN
    /\ env = [name \in {VarV} |-> Nothing]
    /\ file \in {NoFile(c) : c \in BOOLEAN}
                  \cup {FileOf(c, FileContent("Document", d)) :
                          c \in BOOLEAN, d \in {Value_Null, CHOOSE d \in FlatDocuments : TRUE}}
    /\ config \in Configs
    /\ rules \in Rules
    /\ target = None
    /\ cfgPc = "save"
    /\ yaml = None
    /\ expanded = None
    /\ cfgRes = None

InitConfig ==
    /\ IdleAlloc
    /\ v = None
    /\ ctx = None
    /\ stream = <<>>
    /\ pos = 0
    /\ encoded = FALSE
    /\ sizeRes = None
    /\ decRes = None
    /\ text = <<>>
    /\ parsed = None
    /\ formatted = None
    /\ reparsed = None
    /\ convRes = NoConv
    /\ (InitLoad \/ InitSave)

\* File::open and read_to_string, then serde_yaml::from_str into a Value.
read_document(f) ==
    IF ~f.exists THEN ConfigError("IO", <<>>)
    ELSE IF f.content.tag # "Document" THEN ConfigError("Yaml", <<>>)
    ELSE OkRes(f.content.doc)

\* Config::load with the feature env_expansion: the value after
\* expand_env_in_value and the result.
load(f, e, type) ==
    LET document == read_document(f)
        value == expand_env_in_value(e, document.value)
    IN  IF document.tag = "Err" THEN [value |-> None, result |-> document]
        ELSE [value |-> value, result |-> from_value(value, type)]

\* Config::load without the feature.
load_without_env_expansion(f, type) ==
    LET document == read_document(f)
    IN  IF document.tag = "Err" THEN document ELSE from_value(document.value, type)

\* A call of load in a build with env_expansion.
LoadExpanding ==
    /\ cfgPc = "load"
    /\ env_expansion
    /\ expanded' = load(file, env, target).value
    /\ cfgRes' = [op |-> "load", result |-> load(file, env, target).result]
    /\ cfgPc' = "done"
    /\ UNCHANGED <<env_expansion, env, file, config, rules, target, yaml>>

\* A call of load in a build without env_expansion.
LoadPlain ==
    /\ cfgPc = "load"
    /\ ~env_expansion
    /\ cfgRes' = [op |-> "load", result |-> load_without_env_expansion(file, target)]
    /\ cfgPc' = "done"
    /\ UNCHANGED <<env_expansion, env, file, config, rules, target, yaml, expanded>>

\* save that goes on to write the file whatever validate() says.
save_validate_ignoring_errors(r, object) == OkRes(<<>>)

\* save, its first statement: the errors of validate() end the call.
save_validate(r, object) ==
    IF validate(r, object).tag = "Err"
      THEN ConfigError("ConfigInvalid", validate(r, object).error)
    ELSE OkRes(<<>>)

\* save: if let Err(e) = self.validate() { return Err(ConfigInvalid(e)) }
SaveValidate ==
    /\ cfgPc = "save"
    /\ IF save_validate(rules, config).tag = "Err"
         THEN /\ cfgRes' = [op |-> "save", result |-> save_validate(rules, config)]
              /\ cfgPc' = "done"
         ELSE /\ cfgPc' = "to_string"
              /\ UNCHANGED cfgRes
    /\ UNCHANGED <<env_expansion, env, file, config, rules, target, yaml, expanded>>

\* save: let s = serde_yaml::to_string(&self)?
SaveToString ==
    /\ cfgPc = "to_string"
    /\ IF to_string_yaml(config).tag = "Err"
         THEN /\ cfgRes' = [op |-> "save", result |-> to_string_yaml(config)]
              /\ cfgPc' = "done"
              /\ UNCHANGED yaml
         ELSE /\ yaml' = to_string_yaml(config).value
              /\ cfgPc' = "create"
              /\ UNCHANGED cfgRes
    /\ UNCHANGED <<env_expansion, env, file, config, rules, target, expanded>>

\* save: let mut f = File::create(path)? -- the file is created, or emptied
\* when it exists.
SaveCreate ==
    /\ cfgPc = "create"
    /\ IF file.creatable
         THEN /\ file' = FileOf(TRUE, FileContent("Empty", Value_Null))
              /\ cfgPc' = "write_all"
              /\ UNCHANGED cfgRes
         ELSE /\ cfgRes' = [op |-> "save", result |-> ConfigError("IO", <<>>)]
              /\ cfgPc' = "done"
              /\ UNCHANGED file
    /\ UNCHANGED <<env_expansion, env, config, rules, target, yaml, expanded>>

\* save: f.write_all(s.as_bytes())? succeeds; Ok(())
SaveWriteAll ==
    /\ cfgPc = "write_all"
    /\ file' = FileOf(TRUE, FileContent("Document", yaml))
    /\ cfgRes' = [op |-> "save", result |-> OkRes(<<>>)]
    /\ cfgPc' = "done"
    /\ UNCHANGED <<env_expansion, env, config, rules, target, yaml, expanded>>

\* save: f.write_all(s.as_bytes())? fails (the device is full, say) and
\* leaves a part of the text behind.
SaveWriteAllFails ==
    /\ cfgPc = "write_all"
    /\ file' \in {file, FileOf(TRUE, FileContent("Malformed", Value_Null))}
    /\ cfgRes' = [op |-> "save", result |-> ConfigError("IO", <<>>)]
    /\ cfgPc' = "done"
    /\ UNCHANGED <<env_expansion, env, config, rules, target, yaml, expanded>>

NextConfig ==
    \/ LoadExpanding /\ UNCHANGED <<allocVars, binVars, textVars, v, convRes>>
    \/ LoadPlain /\ UNCHANGED <<allocVars, binVars, textVars, v, convRes>>
    \/ SaveValidate /\ UNCHANGED <<allocVars, binVars, textVars, v, convRes>>
    \/ SaveToString /\ UNCHANGED <<allocVars, binVars, textVars, v, convRes>>
    \/ SaveCreate /\ UNCHANGED <<allocVars, binVars, textVars, v, convRes>>
    \/ SaveWriteAll /\ UNCHANGED <<allocVars, binVars, textVars, v, convRes>>
    \/ SaveWriteAllFails /\ UNCHANGED <<allocVars, binVars, textVars, v, convRes>>

SpecConfig == InitConfig /\ [][NextConfig]_vars

\* load has returned.
Loaded == cfgPc = "done" /\ cfgRes.op = "load"

\* C14: load validates what it loads: it never returns Ok with an object for
\* which validate() reports errors.
C14_LoadValidates ==
    (Loaded /\ cfgRes.result.tag = "Ok") => validate(rules, cfgRes.result.value).tag = "Ok"

\* load has returned Ok with an object that validate() refuses, in a build
\* with env_expansion.
C14_Witness ==
    /\ Loaded
    /\ env_expansion
    /\ cfgRes.result.tag = "Ok"
    /\ validate(rules, cfgRes.result.value).tag = "Err"

\* The document is a mapping of "value" to one string: that string.
FlatString ==
    IF /\ file.exists
       /\ file.content.tag = "Document"
       /\ file.content.doc \in FlatDocuments
       /\ file.content.doc.items[1].value.tag = "String"
      THEN Some(file.content.doc.items[1].value.string)
    ELSE Nothing

ValueIs(x) == Value_Mapping(<< <<Value_String(Str(<<"v","a","l","u","e">>)), x>> >>)

\* C15: with env expansion, a string that references an unset variable
\* without a default becomes null and does not fail the load by itself: an
\* Option field loads as None, any other field makes load return an error. A
\* variable set to the empty string gives the empty string, Some("").
C15_UnsetIsNull ==
    (Loaded /\ env_expansion /\ FlatString.some) =>
        /\ (/\ ~env[VarV].some
            /\ FlatString.val \in {Str(<<"$","V">>), Str(<<"$","{","V","}">>),
                                   Str(<<"a","$","{","V","}">>)})
           => /\ expanded = ValueIs(Value_Null)
              /\ IsOption(target) => cfgRes.result = OkRes(DummyConfig(target, Value_Null))
              /\ ~IsOption(target) => cfgRes.result.tag = "Err"
        /\ (/\ env[VarV] = Some(<<>>)
            /\ FlatString.val \in {Str(<<"$","V">>), Str(<<"$","{","V","}">>)})
           => /\ expanded = ValueIs(Value_String(<<>>))
              /\ target = "Option<String>"
                   => cfgRes.result = OkRes(DummyConfig(target, Value_String(<<>>)))

\* "value: $V" with V unset has loaded as DummyConfig<Option<bool>> { None }.
C15_Witness ==
    /\ Loaded
    /\ env_expansion
    /\ ~env[VarV].some
    /\ FlatString = Some(Str(<<"$","V">>))
    /\ target = "Option<bool>"
    /\ cfgRes.result = OkRes(DummyConfig("Option<bool>", Value_Null))

RECURSIVE Paths(_)
\* The paths to the nodes of a document: the positions of the items on the
\* way from the root.
Paths(value) ==
    {<<>>} \cup UNION {{<<i>> \o p : p \in Paths(value.items[i].value)} :
                          i \in 1..Len(value.items)}

RECURSIVE At(_, _)
\* The node of a document at a path.
At(value, path) ==
    IF path = <<>> THEN value ELSE At(value.items[path[1]].value, Tail(path))

\* The type an expanded string is said to get: null, a boolean, an integer,
\* with floats also a float, else a string.
TypedAs(chars, floats) ==
    IF chars \in {Str(<<"n","u","l","l">>), Str(<<"~">>)} THEN Value_Null
    ELSE IF chars = Str(<<"t","r","u","e">>) THEN Value_Bool(TRUE)
    ELSE IF chars = Str(<<"f","a","l","s","e">>) THEN Value_Bool(FALSE)
    ELSE IF parse_i64(chars).some THEN Value_Number(parse_i64(chars).val)
    ELSE IF parse_u64(chars).some THEN Value_Number(parse_u64(chars).val)
    ELSE IF floats /\ parse_f64(chars).some THEN Value_Number(Float(chars))
    ELSE Value_String(chars)

\* Node by node, the expanded document is the document read with every string
\* value replaced by the typed result of its expansion (null when the
\* expansion fails) and everything else, the keys of mappings too, as it was.
Retyped(floats) ==
    \A p \in Paths(file.content.doc) :
        LET before == At(file.content.doc, p)
            after == At(expanded, p)
            expansion == shellexpand_env(env, before.string)
        IN  IF before.tag = "String"
              THEN after = IF expansion.some THEN TypedAs(expansion.val, floats)
                           ELSE Value_Null
            ELSE IF before.tag \in {"Sequence", "Mapping"}
              THEN /\ after.tag = before.tag
                   /\ Len(after.items) = Len(before.items)
                   /\ \A i \in 1..Len(before.items) : after.items[i].key = before.items[i].key
            ELSE after = before

\* C16, as the claim states it: every string value, at any depth, becomes
\* null, a boolean, an i64 or u64 number, or else stays a string; keys and
\* other scalars are unchanged.
C16_RetypedAsClaimed ==
    (Loaded /\ env_expansion /\ expanded # None) => Retyped(FALSE)

\* C16 with the step the claim leaves out: after the integers the text is
\* tried as an f64 and becomes a float number; only then it stays a string.
C16_RetypedWithFloats ==
    (Loaded /\ env_expansion /\ expanded # None) => Retyped(TRUE)

\* A nested document was loaded with V = u64::MAX: the string "$V" three
\* levels down is now that number, and the key "$V" beside it still a string.
C16_Witness ==
    /\ Loaded
    /\ env_expansion
    /\ env[VarV] = Some(U64Max)
    /\ expanded # None
    /\ file.content.doc \in NestedDocuments
    /\ At(file.content.doc, <<2, 3, 1, 1>>) = Value_String(Str(<<"$","V">>))
    /\ At(expanded, <<2, 3, 1, 1>>) = Value_Number(PosInt(U64Max))
    /\ At(expanded, <<2, 3>>).items[1].key = Value_String(Str(<<"$","V">>))

\* C17: save validates before it touches the file system: when validate()
\* reports errors save returns ConfigInvalid with exactly those errors and
\* the file is left as it was; the file changes only after validation and
\* serialization have both succeeded.
C17_SaveValidatesFirst ==
    /\ [](cfgPc = "done" /\ cfgRes.op = "save" /\ validate(rules, config).tag = "Err"
            => cfgRes.result = ConfigError("ConfigInvalid", validate(rules, config).error))
    /\ [][/\ (config # None /\ validate(rules, config).tag = "Err") => file' = file
          /\ file' # file => /\ validate(rules, config).tag = "Ok"
                             /\ to_string_yaml(config) = OkRes(yaml)]_vars

\* save has refused an object with the two errors of validate(), and the
\* file that was at the path still holds its document.
C17_Witness ==
    /\ cfgPc = "done"
    /\ cfgRes.op = "save"
    /\ cfgRes.result =
         ConfigError("ConfigInvalid", <<"value is not set", "application name is empty">>)
    /\ file.exists
    /\ file.content.tag = "Document"

=============================================================================
